---- MODULE Spec2Model ----
(***************************************************************************)
(* Model of src/backend/database.py: the lazily initialised connection     *)
(* manager (_init_db, _setup_mock_db), the in-memory MockCollection        *)
(* (find_one, find, count_documents, insert_one, update_one, aggregate)    *)
(* and the seed loader (init_database).                                    *)
(*                                                                         *)
(* A Python dict that keeps insertion order is a sequence of documents     *)
(* with pairwise distinct keys.  A document is a function from field names *)
(* to values.  A query or an update document is the sequence of its        *)
(* <<key, value>> items, in the dict's iteration order.                    *)
(***************************************************************************)
EXTENDS Integers, Sequences, FiniteSets, TLC

VARIABLES
  _client,                \* module global: "None" or "MongoClient"
  _db,                    \* module global: "None" or "Database"
  activities_collection,  \* module global: a handle (NoneH, RealH, MockH(g))
  teachers_collection,    \* module global: a handle
  gen,                    \* number of MockCollection instances constructed so far
  data,                   \* self.data of the two MockCollection instances now bound
  serverUp,               \* whether the MongoDB server at localhost:27017 answers
  server,                 \* the collections held by that server
  salt,                   \* number of hash_password calls so far (fresh salt each)
  last,                   \* the most recent call and what it returned
  rt,                     \* a $push just applied, until another write follows it
  steps,                  \* number of calls made so far
  inits,                  \* number of init_database calls that have returned
  queries,                \* number of read calls made since the last write
  pc,                     \* per thread: the source line it is about to execute
  prog,                   \* per thread: the entry point it was started on
  ret,                    \* per thread: what _init_db returned to it
  raised,                 \* per thread: the exception that ended its call
  running,                \* the thread that took the latest step (0: none yet)
  preempts                \* times a thread was switched out before its call ended

vars == <<_client, _db, activities_collection, teachers_collection, gen, data,
          serverUp, server, salt, last, rt, steps, inits, queries,
          pc, prog, ret, raised, running, preempts>>

conn == <<_client, _db, activities_collection, teachers_collection, gen>>
thr == <<pc, prog, ret, raised, running, preempts>>

----------------------------------------------------------------------------
(* Bounds *)

\* Writing calls (init_database, _init_db, insert_one, update_one) made in one
\* behaviour of the sequential specifications.
MaxSteps == 3

\* Read calls (find, aggregate) explored after the last write.  A read changes
\* no variable but `last` and `queries`, so the writes that can follow a read
\* are the writes that can follow the state the read was made in.
MaxQueries == 1

\* Preemptions in one behaviour of the concurrent specification: switches away
\* from a thread whose call has not ended.
MaxPreempts == 3

----------------------------------------------------------------------------
(* Handles *)

NoneH == [kind |-> "None", gen |-> 0]
RealH == [kind |-> "real", gen |-> 0]
MockH(g) == [kind |-> "mock", gen |-> g]

----------------------------------------------------------------------------
(* Seed data *)

_get_initial_activities ==
  <<
    [name |-> "Chess Club", details |->
     [description |-> "Learn strategies and compete in chess tournaments",
     schedule |-> "Mondays and Fridays, 3:15 PM - 4:45 PM",
     schedule_details |-> [days |-> <<"Monday", "Friday">>, start_time |-> "15:15", end_time |-> "16:45"],
     max_participants |-> 12,
     participants |-> <<"michael@mergington.edu", "daniel@mergington.edu">>]],
    [name |-> "Programming Class", details |->
     [description |-> "Learn programming fundamentals and build software projects",
     schedule |-> "Tuesdays and Thursdays, 7:00 AM - 8:00 AM",
     schedule_details |-> [days |-> <<"Tuesday", "Thursday">>, start_time |-> "07:00", end_time |-> "08:00"],
     max_participants |-> 20,
     participants |-> <<"emma@mergington.edu", "sophia@mergington.edu">>]],
    [name |-> "Morning Fitness", details |->
     [description |-> "Early morning physical training and exercises",
     schedule |-> "Mondays, Wednesdays, Fridays, 6:30 AM - 7:45 AM",
     schedule_details |-> [days |-> <<"Monday", "Wednesday", "Friday">>, start_time |-> "06:30", end_time |-> "07:45"],
     max_participants |-> 30,
     participants |-> <<"john@mergington.edu", "olivia@mergington.edu">>]],
    [name |-> "Soccer Team", details |->
     [description |-> "Join the school soccer team and compete in matches",
     schedule |-> "Tuesdays and Thursdays, 3:30 PM - 5:30 PM",
     schedule_details |-> [days |-> <<"Tuesday", "Thursday">>, start_time |-> "15:30", end_time |-> "17:30"],
     max_participants |-> 22,
     participants |-> <<"liam@mergington.edu", "noah@mergington.edu">>]],
    [name |-> "Basketball Team", details |->
     [description |-> "Practice and compete in basketball tournaments",
     schedule |-> "Wednesdays and Fridays, 3:15 PM - 5:00 PM",
     schedule_details |-> [days |-> <<"Wednesday", "Friday">>, start_time |-> "15:15", end_time |-> "17:00"],
     max_participants |-> 15,
     participants |-> <<"ava@mergington.edu", "mia@mergington.edu">>]],
    [name |-> "Art Club", details |->
     [description |-> "Explore various art techniques and create masterpieces",
     schedule |-> "Thursdays, 3:15 PM - 5:00 PM",
     schedule_details |-> [days |-> <<"Thursday">>, start_time |-> "15:15", end_time |-> "17:00"],
     max_participants |-> 15,
     participants |-> <<"amelia@mergington.edu", "harper@mergington.edu">>]],
    [name |-> "Drama Club", details |->
     [description |-> "Act, direct, and produce plays and performances",
     schedule |-> "Mondays and Wednesdays, 3:30 PM - 5:30 PM",
     schedule_details |-> [days |-> <<"Monday", "Wednesday">>, start_time |-> "15:30", end_time |-> "17:30"],
     max_participants |-> 20,
     participants |-> <<"ella@mergington.edu", "scarlett@mergington.edu">>]],
    [name |-> "Math Club", details |->
     [description |-> "Solve challenging problems and prepare for math competitions",
     schedule |-> "Tuesdays, 7:15 AM - 8:00 AM",
     schedule_details |-> [days |-> <<"Tuesday">>, start_time |-> "07:15", end_time |-> "08:00"],
     max_participants |-> 10,
     participants |-> <<"james@mergington.edu", "benjamin@mergington.edu">>]],
    [name |-> "Debate Team", details |->
     [description |-> "Develop public speaking and argumentation skills",
     schedule |-> "Fridays, 3:30 PM - 5:30 PM",
     schedule_details |-> [days |-> <<"Friday">>, start_time |-> "15:30", end_time |-> "17:30"],
     max_participants |-> 12,
     participants |-> <<"charlotte@mergington.edu", "amelia@mergington.edu">>]],
    [name |-> "Weekend Robotics Workshop", details |->
     [description |-> "Build and program robots in our state-of-the-art workshop",
     schedule |-> "Saturdays, 10:00 AM - 2:00 PM",
     schedule_details |-> [days |-> <<"Saturday">>, start_time |-> "10:00", end_time |-> "14:00"],
     max_participants |-> 15,
     participants |-> <<"ethan@mergington.edu", "oliver@mergington.edu">>]],
    [name |-> "Science Olympiad", details |->
     [description |-> "Weekend science competition preparation for regional and state events",
     schedule |-> "Saturdays, 1:00 PM - 4:00 PM",
     schedule_details |-> [days |-> <<"Saturday">>, start_time |-> "13:00", end_time |-> "16:00"],
     max_participants |-> 18,
     participants |-> <<"isabella@mergington.edu", "lucas@mergington.edu">>]],
    [name |-> "Sunday Chess Tournament", details |->
     [description |-> "Weekly tournament for serious chess players with rankings",
     schedule |-> "Sundays, 2:00 PM - 5:00 PM",
     schedule_details |-> [days |-> <<"Sunday">>, start_time |-> "14:00", end_time |-> "17:00"],
     max_participants |-> 16,
     participants |-> <<"william@mergington.edu", "jacob@mergington.edu">>]]
  >>

\* hash_password: Argon2 with a fresh salt on every call.
hash_password(password, n) == <<"argon2", password, n>>

\* The three accounts, hashed on demand with salts n, n+1, n+2.
_get_initial_teachers(n) ==
  << [username |-> "mrodriguez", display_name |-> "Ms. Rodriguez",
      password |-> hash_password("art123", n), role |-> "teacher"],
     [username |-> "mchen", display_name |-> "Mr. Chen",
      password |-> hash_password("chess456", n + 1), role |-> "teacher"],
     [username |-> "principal", display_name |-> "Principal Martinez",
      password |-> hash_password("admin789", n + 2), role |-> "admin"] >>

\* {"_id": name, **details}
ActivityDoc(name, details) == ("_id" :> name) @@ details

\* {"_id": teacher["username"], **teacher}
TeacherDoc(teacher) == ("_id" :> teacher.username) @@ teacher

----------------------------------------------------------------------------
(* Python string order: by code point, a proper prefix first *)

Codes(s) ==
  CASE s = "06:30" -> <<48, 54, 58, 51, 48>>
    [] s = "07:00" -> <<48, 55, 58, 48, 48>>
    [] s = "07:15" -> <<48, 55, 58, 49, 53>>
    [] s = "07:45" -> <<48, 55, 58, 52, 53>>
    [] s = "08:00" -> <<48, 56, 58, 48, 48>>
    [] s = "09:00" -> <<48, 57, 58, 48, 48>>
    [] s = "10:00" -> <<49, 48, 58, 48, 48>>
    [] s = "13:00" -> <<49, 51, 58, 48, 48>>
    [] s = "14:00" -> <<49, 52, 58, 48, 48>>
    [] s = "15:15" -> <<49, 53, 58, 49, 53>>
    [] s = "15:30" -> <<49, 53, 58, 51, 48>>
    [] s = "16:00" -> <<49, 54, 58, 48, 48>>
    [] s = "16:45" -> <<49, 54, 58, 52, 53>>
    [] s = "17:00" -> <<49, 55, 58, 48, 48>>
    [] s = "17:30" -> <<49, 55, 58, 51, 48>>
    [] s = "18:00" -> <<49, 56, 58, 48, 48>>
    [] s = "9:00" -> <<57, 58, 48, 48>>
    [] s = "Friday" -> <<70, 114, 105, 100, 97, 121>>
    [] s = "Monday" -> <<77, 111, 110, 100, 97, 121>>
    [] s = "Saturday" -> <<83, 97, 116, 117, 114, 100, 97, 121>>
    [] s = "Sunday" -> <<83, 117, 110, 100, 97, 121>>
    [] s = "Thursday" -> <<84, 104, 117, 114, 115, 100, 97, 121>>
    [] s = "Tuesday" -> <<84, 117, 101, 115, 100, 97, 121>>
    [] s = "Wednesday" -> <<87, 101, 100, 110, 101, 115, 100, 97, 121>>
    [] s = "monday" -> <<109, 111, 110, 100, 97, 121>>

\* s < t on sequences of code points.
LexLess(s, t) ==
  \E i \in 1..(Len(s) + 1) :
    /\ i <= Len(t)
    /\ \A j \in 1..(i - 1) : s[j] = t[j]
    /\ (i = Len(s) + 1 \/ s[i] < t[i])

\* a < b on Python strings.
StrLess(a, b) == LexLess(Codes(a), Codes(b))

Range(s) == {s[i] : i \in 1..Len(s)}

\* sorted(S) for a set of strings.
RECURSIVE sorted(_)
sorted(S) ==
  IF S = {} THEN <<>>
  ELSE LET m == CHOOSE x \in S : \A y \in S \ {x} : StrLess(x, y)
       IN  <<m>> \o sorted(S \ {m})

----------------------------------------------------------------------------
(* MockCollection.  self.data is a sequence of documents; the dict key of a *)
(* document is its "_id" (insert_one is the only writer of keys).           *)

\* Fields whose value is a Python list, in every document of the model.
ListFields == {"participants"}

Has(doc, k) == k \in DOMAIN doc

\* An item of a dict given as <<k, v>> pairs: key k, value v.
Item(k, v) == [k |-> k, isop |-> FALSE, v |-> v]
\* An item whose value is an operator dict such as {"$in": [...]}.
OpItem(k, ops) == [k |-> k, isop |-> TRUE, v |-> ops]

\* "_id" in query
HasKey(query, k) == \E i \in 1..Len(query) : query[i].k = k
\* query[k]
ValueOf(query, k) == query[CHOOSE i \in 1..Len(query) : query[i].k = k].v

\* Position of the document whose _id is id, 0 when there is none.
IndexOf(d, id) ==
  IF \E i \in 1..Len(d) : d[i]["_id"] = id
  THEN CHOOSE i \in 1..Len(d) : d[i]["_id"] = id
  ELSE 0

\* doc.get(k) == v for a plain value v (an operator dict equals no stored value).
GetEquals(doc, it) == ~it.isop /\ Has(doc, it.k) /\ doc[it.k] = it.v

\* find_one: the first document, in dict order, that has the queried _id or
\* that equals the query on every item.
FindOneHit(doc, query) ==
  \/ /\ HasKey(query, "_id")
     /\ ~query[CHOOSE i \in 1..Len(query) : query[i].k = "_id"].isop
     /\ doc["_id"] = ValueOf(query, "_id")
  \/ \A i \in 1..Len(query) : GetEquals(doc, query[i])

find_one(d, query) ==
  IF \E i \in 1..Len(d) : FindOneHit(d[i], query)
  THEN [found |-> TRUE,
        doc |-> d[CHOOSE i \in 1..Len(d) :
                    /\ FindOneHit(d[i], query)
                    /\ \A j \in 1..(i - 1) : ~FindOneHit(d[j], query)]]
  ELSE [found |-> FALSE]

\* ItemMatches with all() for any() on line 69: every candidate day required.
ItemMatches_AllOf(doc, it) ==
  IF it.k = "schedule_details.days" /\ it.isop /\ "$in" \in DOMAIN it.v
  THEN /\ Has(doc, "schedule_details")
       /\ Has(doc["schedule_details"], "days")
       /\ \A i \in 1..Len(it.v["$in"]) :
            it.v["$in"][i] \in Range(doc["schedule_details"]["days"])
  ELSE IF it.k = "schedule_details.start_time" /\ it.isop /\ "$gte" \in DOMAIN it.v
  THEN /\ Has(doc, "schedule_details")
       /\ Has(doc["schedule_details"], "start_time")
       /\ ~StrLess(doc["schedule_details"]["start_time"], it.v["$gte"])
  ELSE IF it.k = "schedule_details.end_time" /\ it.isop /\ "$lte" \in DOMAIN it.v
  THEN /\ Has(doc, "schedule_details")
       /\ Has(doc["schedule_details"], "end_time")
       /\ ~StrLess(it.v["$lte"], doc["schedule_details"]["end_time"])
  ELSE GetEquals(doc, it)

\* ItemMatches with <= for < on line 76: a start equal to the bound is dropped.
ItemMatches_StrictLower(doc, it) ==
  IF it.k = "schedule_details.days" /\ it.isop /\ "$in" \in DOMAIN it.v
  THEN /\ Has(doc, "schedule_details")
       /\ Has(doc["schedule_details"], "days")
       /\ \E i \in 1..Len(it.v["$in"]) :
            it.v["$in"][i] \in Range(doc["schedule_details"]["days"])
  ELSE IF it.k = "schedule_details.start_time" /\ it.isop /\ "$gte" \in DOMAIN it.v
  THEN /\ Has(doc, "schedule_details")
       /\ Has(doc["schedule_details"], "start_time")
       /\ StrLess(it.v["$gte"], doc["schedule_details"]["start_time"])
  ELSE IF it.k = "schedule_details.end_time" /\ it.isop /\ "$lte" \in DOMAIN it.v
  THEN /\ Has(doc, "schedule_details")
       /\ Has(doc["schedule_details"], "end_time")
       /\ ~StrLess(it.v["$lte"], doc["schedule_details"]["end_time"])
  ELSE GetEquals(doc, it)

\* One pass of the inner loop of find: does the item keep matches = True?
ItemMatches(doc, it) ==
  IF it.k = "schedule_details.days" /\ it.isop /\ "$in" \in DOMAIN it.v
  THEN /\ Has(doc, "schedule_details")
       /\ Has(doc["schedule_details"], "days")
       /\ \E i \in 1..Len(it.v["$in"]) :
            it.v["$in"][i] \in Range(doc["schedule_details"]["days"])
  ELSE IF it.k = "schedule_details.start_time" /\ it.isop /\ "$gte" \in DOMAIN it.v
  THEN /\ Has(doc, "schedule_details")
       /\ Has(doc["schedule_details"], "start_time")
       /\ ~StrLess(doc["schedule_details"]["start_time"], it.v["$gte"])
  ELSE IF it.k = "schedule_details.end_time" /\ it.isop /\ "$lte" \in DOMAIN it.v
  THEN /\ Has(doc, "schedule_details")
       /\ Has(doc["schedule_details"], "end_time")
       /\ ~StrLess(it.v["$lte"], doc["schedule_details"]["end_time"])
  ELSE GetEquals(doc, it)

Matches(doc, query) == \A i \in 1..Len(query) : ItemMatches(doc, query[i])

find(d, query) == SelectSeq(d, LAMBDA doc : Matches(doc, query))

count_documents(d, query) == Len(find(d, query))

\* insert_one on a list of documents: always one more entry.
insert_one_Append(d, doc) == Append(d, doc)

\* self.data[doc.get("_id")] = doc: a present key keeps its place.
insert_one(d, doc) ==
  IF IndexOf(d, doc["_id"]) = 0
  THEN Append(d, doc)
  ELSE [d EXCEPT ![IndexOf(d, doc["_id"])] = doc]

\* The $push loop over update["$push"].items(); list.append raises
\* AttributeError on a value that is no list, after the earlier items ran.
RECURSIVE PushItems(_, _)
PushItems(doc, items) ==
  IF items = <<>> THEN [doc |-> doc, raised |-> "none"]
  ELSE LET k == Head(items).k
           v == Head(items).v
       IN  IF ~Has(doc, k)
           THEN PushItems((k :> <<v>>) @@ doc, Tail(items))
           ELSE IF k \in ListFields
           THEN PushItems([doc EXCEPT ![k] = Append(@, v)], Tail(items))
           ELSE [doc |-> doc, raised |-> "AttributeError"]

\* PullItems with the comprehension's test inverted (x == v).
RECURSIVE PullItems_Inverted(_, _)
PullItems_Inverted(doc, items) ==
  IF items = <<>> THEN doc
  ELSE LET k == Head(items).k
           v == Head(items).v
       IN  IF Has(doc, k) /\ k \in ListFields
           THEN PullItems_Inverted([doc EXCEPT ![k] = SelectSeq(@, LAMBDA x : x = v)],
                                   Tail(items))
           ELSE PullItems_Inverted(doc, Tail(items))

\* The $pull loop over update["$pull"].items().
RECURSIVE PullItems(_, _)
PullItems(doc, items) ==
  IF items = <<>> THEN doc
  ELSE LET k == Head(items).k
           v == Head(items).v
       IN  IF Has(doc, k) /\ k \in ListFields
           THEN PullItems([doc EXCEPT ![k] = SelectSeq(@, LAMBDA x : x # v)],
                          Tail(items))
           ELSE PullItems(doc, Tail(items))

\* ApplyUpdate with `if` for `elif` on line 111: a $pull next to a $push is
\* applied as well.
ApplyUpdate_Both(doc, update) ==
  LET pushed == IF "$push" \in DOMAIN update
                THEN PushItems(doc, update["$push"])
                ELSE [doc |-> doc, raised |-> "none"]
  IN  IF pushed.raised = "none" /\ "$pull" \in DOMAIN update
      THEN [doc |-> PullItems(pushed.doc, update["$pull"]), raised |-> "none"]
      ELSE pushed

\* The body of the loop of update_one for the matched document.
ApplyUpdate(doc, update) ==
  IF "$push" \in DOMAIN update THEN PushItems(doc, update["$push"])
  ELSE IF "$pull" \in DOMAIN update
  THEN [doc |-> PullItems(doc, update["$pull"]), raised |-> "none"]
  ELSE [doc |-> doc, raised |-> "none"]

\* update_one that stores a new document when none has the queried _id.
update_one_Upsert(d, query, update) ==
  LET id == IF HasKey(query, "_id") THEN ValueOf(query, "_id") ELSE "None"
      i == IndexOf(d, id)
      r == ApplyUpdate(IF i = 0 THEN [_id |-> id] ELSE d[i], update)
  IN  [data |-> IF i = 0 THEN Append(d, r.doc) ELSE [d EXCEPT ![i] = r.doc],
       modified_count |-> IF r.raised = "none" THEN 1 ELSE 0,
       raised |-> r.raised]

\* update_one without the return inside the loop's test: once a document has
\* the queried _id, the update is applied to every document walked.
update_one_AllDocs(d, query, update) ==
  LET i == IF HasKey(query, "_id") /\ ~query[CHOOSE j \in 1..Len(query) : query[j].k = "_id"].isop
           THEN IndexOf(d, ValueOf(query, "_id")) ELSE 0
  IN  IF i = 0
      THEN [data |-> d, modified_count |-> 0, raised |-> "none"]
      ELSE LET r == ApplyUpdate(d[i], update)
           IN  [data |-> IF r.raised = "none"
                         THEN [j \in 1..Len(d) |-> ApplyUpdate(d[j], update).doc]
                         ELSE d,
                modified_count |-> IF r.raised = "none" THEN 1 ELSE 0,
                raised |-> r.raised]

\* query.get("_id"): documents of the model all carry an _id, so a query
\* without one (None) matches none of them.
update_one(d, query, update) ==
  LET i == IF HasKey(query, "_id") /\ ~query[CHOOSE j \in 1..Len(query) : query[j].k = "_id"].isop
           THEN IndexOf(d, ValueOf(query, "_id")) ELSE 0
  IN  IF i = 0
      THEN [data |-> d, modified_count |-> 0, raised |-> "none"]
      ELSE LET r == ApplyUpdate(d[i], update)
           IN  [data |-> [d EXCEPT ![i] = r.doc],
                modified_count |-> IF r.raised = "none" THEN 1 ELSE 0,
                raised |-> r.raised]

\* stage.get(name) is truthy: present and neither "" nor {}.
Truthy(stage, name) ==
  /\ name \in DOMAIN stage
  /\ IF name = "$unwind" THEN stage[name] # "" ELSE DOMAIN stage[name] # {}

\* aggregate collecting the days in a list: stored order, repeats kept.
aggregate_Unsorted(d, pipeline) ==
  IF /\ Len(pipeline) >= 2
     /\ Truthy(pipeline[1], "$unwind")
     /\ Truthy(pipeline[2], "$group")
  THEN LET withDays == SelectSeq(d, LAMBDA doc : /\ Has(doc, "schedule_details")
                                                /\ Has(doc["schedule_details"], "days"))
       IN  [i \in 1..Len(withDays) |-> [_id |-> withDays[i]["schedule_details"]["days"][1]]]
  ELSE <<>>

aggregate(d, pipeline) ==
  IF /\ Len(pipeline) >= 2
     /\ Truthy(pipeline[1], "$unwind")
     /\ Truthy(pipeline[2], "$group")
  THEN LET days == UNION { Range(d[i]["schedule_details"]["days"]) :
                           i \in { j \in 1..Len(d) :
                                     /\ Has(d[j], "schedule_details")
                                     /\ Has(d[j]["schedule_details"], "days") } }
           s == sorted(days)
       IN  [i \in 1..Len(s) |-> [_id |-> s[i]]]
  ELSE <<>>

----------------------------------------------------------------------------
(* A document database with MongoDB's semantics: what pymongo's Collection  *)
(* does on the server, for the calls this module makes on it.               *)

\* insert_one: a duplicate _id is rejected with DuplicateKeyError.
RealInsertOne(d, doc) ==
  IF IndexOf(d, doc["_id"]) = 0
  THEN [data |-> Append(d, doc), raised |-> "none"]
  ELSE [data |-> d, raised |-> "DuplicateKeyError"]

\* count_documents({})
RealCountAll(d) == Len(d)

----------------------------------------------------------------------------
(* Connection manager *)

\* The module globals and the data behind the mock handles, as one record.
Conn ==
  [client |-> _client, db |-> _db,
   ac |-> activities_collection, tc |-> teachers_collection,
   gen |-> gen, data |-> data]

\* How one connection attempt can end: the MongoClient constructor raises, the
\* ping raises (server not answering), or both succeed.
Outcomes == IF serverUp THEN {"ok", "ctor_raises"} ELSE {"ping_raises", "ctor_raises"}

\* Two fresh MockCollection instances, bound to the two globals.
_setup_mock_db(c) ==
  [c EXCEPT !.ac = MockH(c.gen + 1),
            !.tc = MockH(c.gen + 2),
            !.gen = c.gen + 2,
            !.data = [activities |-> <<>>, teachers |-> <<>>]]

\* The whole of _init_db(), for a connection attempt ending in `outcome`.
_init_db(c, outcome) ==
  IF c.client # "None" THEN c
  ELSE IF outcome = "ctor_raises" THEN _setup_mock_db(c)
  ELSE LET bound == [c EXCEPT !.client = "MongoClient", !.db = "Database",
                              !.ac = RealH, !.tc = RealH]
       IN  IF outcome = "ping_raises" THEN _setup_mock_db(bound) ELSE bound

----------------------------------------------------------------------------
(* Seed loader *)

\* for name, details in _get_initial_activities().items(): insert_one(...)
RECURSIVE InsertActivities(_, _)
InsertActivities(d, items) ==
  IF items = <<>> THEN d
  ELSE InsertActivities(
         insert_one(d, ActivityDoc(Head(items).name, Head(items).details)),
         Tail(items))

\* for teacher in _get_initial_teachers(): insert_one(...)
RECURSIVE InsertTeachers(_, _)
InsertTeachers(d, teachers) ==
  IF teachers = <<>> THEN d
  ELSE InsertTeachers(insert_one(d, TeacherDoc(Head(teachers))), Tail(teachers))

\* Lines 142-143 without the emptiness test of line 141.
SeedActivities_NoGuard(d) == InsertActivities(d, _get_initial_activities)

\* Lines 141-143 on a MockCollection.
SeedActivities(d) ==
  IF count_documents(d, <<>>) = 0
  THEN InsertActivities(d, _get_initial_activities)
  ELSE d

\* Lines 146-148 on a MockCollection.
SeedTeachers(d, n) ==
  IF count_documents(d, <<>>) = 0
  THEN InsertTeachers(d, _get_initial_teachers(n))
  ELSE d

\* The documents init_database inserts, as built on lines 143 and 148.
SeedActivityDocs ==
  [i \in 1..Len(_get_initial_activities) |->
     ActivityDoc(_get_initial_activities[i].name, _get_initial_activities[i].details)]
SeedTeacherDocs(n) ==
  [i \in 1..Len(_get_initial_teachers(n)) |-> TeacherDoc(_get_initial_teachers(n)[i])]

\* Lines 141-148 on the server (an empty collection takes every insert).
RealSeed(d, docs) == IF RealCountAll(d) = 0 THEN docs ELSE d

----------------------------------------------------------------------------
(* Sequential calls: each action is one whole call *)

Idle == [line |-> "idle", i |-> 0, n |-> 0]

InitCommon ==
  /\ _client = "None"
  /\ _db = "None"
  /\ activities_collection = NoneH
  /\ teachers_collection = NoneH
  /\ gen = 0
  /\ data = [activities |-> <<>>, teachers |-> <<>>]
  /\ serverUp \in BOOLEAN
  /\ server = [activities |-> <<>>, teachers |-> <<>>]
  /\ salt = 0
  /\ last = [op |-> "none"]
  /\ rt = [on |-> FALSE]
  /\ steps = 0
  /\ inits = 0
  /\ queries = 0

Init ==
  /\ InitCommon
  /\ pc = [t \in {1, 2} |-> Idle]
  /\ prog = [t \in {1, 2} |-> "none"]
  /\ ret = [t \in {1, 2} |-> <<>>]
  /\ raised = [t \in {1, 2} |-> "none"]
  /\ running = 0
  /\ preempts = 0

SetConn(c) ==
  /\ _client' = c.client
  /\ _db' = c.db
  /\ activities_collection' = c.ac
  /\ teachers_collection' = c.tc
  /\ gen' = c.gen

\* init_database()
InitDatabase ==
  /\ steps < MaxSteps
  /\ queries = 0
  /\ \E outcome \in Outcomes :
       LET c == IF activities_collection = NoneH \/ teachers_collection = NoneH
                THEN _init_db(Conn, outcome) ELSE Conn
           seedT == IF c.tc.kind = "mock"
                    THEN count_documents(c.data.teachers, <<>>) = 0
                    ELSE RealCountAll(server.teachers) = 0
       IN  /\ SetConn(c)
           /\ data' = [activities |-> IF c.ac.kind = "mock"
                                      THEN SeedActivities(c.data.activities)
                                      ELSE c.data.activities,
                       teachers |-> IF c.tc.kind = "mock"
                                    THEN SeedTeachers(c.data.teachers, salt)
                                    ELSE c.data.teachers]
           /\ server' = [activities |-> IF c.ac.kind = "real"
                                        THEN RealSeed(server.activities, SeedActivityDocs)
                                        ELSE server.activities,
                         teachers |-> IF c.tc.kind = "real"
                                      THEN RealSeed(server.teachers, SeedTeacherDocs(salt))
                                      ELSE server.teachers]
           /\ salt' = IF seedT THEN salt + 3 ELSE salt
           /\ last' = [op |-> "init_database",
                       outcome |-> IF c.client # _client \/ c.gen # gen
                                   THEN outcome ELSE "none"]
  /\ rt' = [on |-> FALSE]
  /\ steps' = steps + 1
  /\ inits' = inits + 1
  /\ UNCHANGED <<serverUp, queries, thr>>

\* _init_db(), called directly
InitDb ==
  /\ steps < MaxSteps
  /\ queries = 0
  /\ \E outcome \in Outcomes :
       LET c == _init_db(Conn, outcome)
       IN  /\ SetConn(c)
           /\ data' = c.data
           /\ last' = [op |-> "_init_db",
                       outcome |-> IF _client = "None" THEN outcome ELSE "none",
                       ret |-> <<c.ac, c.tc>>, raised |-> "none"]
  /\ rt' = [on |-> FALSE]
  /\ steps' = steps + 1
  /\ UNCHANGED <<serverUp, server, salt, inits, queries, thr>>

----------------------------------------------------------------------------
(* Arguments the calls are made with *)

Colls == {"activities", "teachers"}

Handle(coll) ==
  IF coll = "activities" THEN activities_collection ELSE teachers_collection

IdQuery(id) == <<Item("_id", id)>>
Push1(k, v) == ("$push" :> <<Item(k, v)>>)
Pull1(k, v) == ("$pull" :> <<Item(k, v)>>)

\* update_one calls, as <<collection, query, update>>: on a stored activity,
\* $push and $pull of an address that is and is not on the roster, on a list
\* field and on a string field, and both operators at once; on identifiers
\* that are not stored and on a filter without _id; on a teacher account,
\* which has no participants field.
UpdateCalls ==
  ({"activities"} \X {IdQuery("Chess Club")} \X
     { Push1("participants", "x@y.edu"),
       Push1("participants", "michael@mergington.edu"),
       Pull1("participants", "x@y.edu"),
       Pull1("participants", "michael@mergington.edu"),
       Push1("_id", "x@y.edu"),
       Pull1("_id", "Chess Club"),
       Push1("participants", "x@y.edu") @@ Pull1("participants", "daniel@mergington.edu") })
  \cup
  ({"activities"} \X {IdQuery("Knitting Circle"), IdQuery("Yoga Class"), <<>>} \X
     { Push1("participants", "x@y.edu"), Pull1("participants", "x@y.edu") })
  \cup
  ({"teachers"} \X {IdQuery("mchen"), IdQuery("Chess Club")} \X
     { Push1("participants", "x@y.edu"), Pull1("participants", "x@y.edu") })

\* insert_one calls, as <<collection, document>>: a stored _id with other
\* weekdays and no participants; a stored _id with no schedule at all; a new
\* _id with a partial schedule and a repeated participant; a stored account.
InsertCalls ==
  ({"activities"} \X
     { [_id |-> "Sunday Chess Tournament",
        schedule_details |-> [days |-> <<"Saturday", "Saturday">>,
                              start_time |-> "9:00", end_time |-> "18:00"]],
       [_id |-> "Chess Club", max_participants |-> 5],
       [_id |-> "Yoga Class",
        schedule_details |-> [start_time |-> "09:00"],
        max_participants |-> 12,
        participants |-> <<"x@y.edu", "x@y.edu">>] })
  \cup
  ({"teachers"} \X { [_id |-> "mchen", role |-> "admin"] })

\* The distinct-days pipeline of the application, and other pipelines.
DaysPipeline ==
  << ("$unwind" :> "$schedule_details.days"),
     ("$group" :> [_id |-> "$schedule_details.days"]),
     ("$sort" :> [_id |-> 1]) >>

Pipelines ==
  { DaysPipeline,
    SubSeq(DaysPipeline, 1, 2),
    <<>>,
    SubSeq(DaysPipeline, 1, 1),
    << DaysPipeline[2], DaysPipeline[1] >>,
    << ("$unwind" :> ""), DaysPipeline[2] >>,
    << DaysPipeline[1], ("$group" :> <<>>) >>,
    << ("$unwind" :> "$participants"), ("$group" :> [_id |-> "$participants"]) >>,
    << ("$match" :> [max_participants |-> 12]), DaysPipeline[1], DaysPipeline[2] >> }

\* aggregate calls, as <<collection, pipeline>>.
AggregateCalls ==
  ({"activities"} \X Pipelines) \cup ({"teachers"} \X {DaysPipeline})

\* Filters of find.
DaysQuery == << OpItem("schedule_details.days", ("$in" :> <<"Monday", "Friday">>)) >>
TimeQuery ==
  << OpItem("schedule_details.start_time", ("$gte" :> "09:00")),
     OpItem("schedule_details.end_time", ("$lte" :> "18:00")) >>

\* Other candidate days and bounds: a day no seed has in that spelling next
\* to one that some have, and a lower bound above "9:00" by the clock and
\* below it by code point.
DaysQuery2 == << OpItem("schedule_details.days", ("$in" :> <<"monday", "Sunday">>)) >>
TimeQuery2 ==
  << OpItem("schedule_details.start_time", ("$gte" :> "10:00")),
     OpItem("schedule_details.end_time", ("$lte" :> "18:00")) >>

FindCalls ==
  ({"activities"} \X
     { <<>>, DaysQuery, DaysQuery2, TimeQuery, TimeQuery2,
       DaysQuery \o TimeQuery, <<Item("max_participants", 12)>> })
  \cup ({"teachers"} \X { <<>>, <<Item("role", "teacher")>> })

\* Plain-equality filters of find_one, as <<collection, filter>>: a stored and
\* an unknown _id alone; a stored _id after a pair its document has, and
\* before one it does not have; one pair that several documents have; two
\* pairs that only a later document has both; no pair at all.
FindOneCalls ==
  ({"activities"} \X
     { IdQuery("Chess Club"),
       IdQuery("Knitting Circle"),
       <<Item("_id", "Debate Team"), Item("max_participants", 99)>>,
       <<Item("max_participants", 12), Item("_id", "Debate Team")>>,
       <<Item("max_participants", 12)>>,
       <<Item("max_participants", 15), Item("schedule", "Thursdays, 3:15 PM - 5:00 PM")>>,
       <<>> })
  \cup
  ({"teachers"} \X { <<Item("role", "admin")>> })

\* Filters of count_documents, as <<collection, filter>>.
CountCalls ==
  ({"activities"} \X
     { <<>>, <<Item("_id", "Debate Team"), Item("max_participants", 99)>> })
  \cup ({"teachers"} \X { <<Item("role", "admin")>> })

----------------------------------------------------------------------------
(* The same calls on a document database with MongoDB's semantics holding   *)
(* the same documents: the reference the mock is compared with.             *)

\* The value at a dotted path of the model's documents, as [has, v].
RealPath(doc, path) ==
  LET sub(f) == IF Has(doc, "schedule_details") /\ Has(doc["schedule_details"], f)
                THEN [has |-> TRUE, v |-> doc["schedule_details"][f]]
                ELSE [has |-> FALSE]
  IN  CASE path = "schedule_details.days" -> sub("days")
        [] path = "schedule_details.start_time" -> sub("start_time")
        [] path = "schedule_details.end_time" -> sub("end_time")
        [] OTHER -> IF Has(doc, path) THEN [has |-> TRUE, v |-> doc[path]]
                    ELSE [has |-> FALSE]

RealIsArray(path) == path \in ListFields \cup {"schedule_details.days"}

\* One operator of a filter item against the value at its path.
RealOpHolds(path, val, op, arg) ==
  CASE op = "$in" -> IF RealIsArray(path)
                     THEN Range(val) \cap Range(arg) # {}
                     ELSE val \in Range(arg)
    [] op = "$gte" -> ~RealIsArray(path) /\ ~StrLess(val, arg)
    [] op = "$lte" -> ~RealIsArray(path) /\ ~StrLess(arg, val)
    [] OTHER -> FALSE

RealItemMatches(doc, it) ==
  LET p == RealPath(doc, it.k)
  IN  /\ p.has
      /\ IF it.isop
         THEN \A op \in DOMAIN it.v : RealOpHolds(it.k, p.v, op, it.v[op])
         ELSE IF RealIsArray(it.k) THEN it.v \in Range(p.v) ELSE p.v = it.v

\* find(query): every document matching all items, in natural order.
RealFind(d, query) ==
  SelectSeq(d, LAMBDA doc : \A i \in 1..Len(query) : RealItemMatches(doc, query[i]))

\* update_one: modified_count counts documents the update changed; $push and
\* $pull are both applied; either on a value that is no array is a WriteError.
RealUpdateOne(d, query, update) ==
  LET hit == RealFind(d, query)
      items(op) == IF op \in DOMAIN update THEN update[op] ELSE <<>>
      all == items("$push") \o items("$pull")
  IN  IF hit = <<>>
      THEN [modified_count |-> 0, raised |-> "none"]
      ELSE IF \/ \E i \in 1..Len(all) : Has(hit[1], all[i].k) /\ all[i].k \notin ListFields
              \/ \E i \in 1..Len(items("$push")), j \in 1..Len(items("$pull")) :
                   items("$push")[i].k = items("$pull")[j].k
      THEN [modified_count |-> 0, raised |-> "WriteError"]
      ELSE LET new == PullItems(PushItems(hit[1], items("$push")).doc, items("$pull"))
           IN  [modified_count |-> IF new = hit[1] THEN 0 ELSE 1, raised |-> "none"]

\* The distinct-days pipeline ($unwind, $group by value, $sort ascending).
RealDistinctDays(d) ==
  LET days == UNION { Range(RealPath(d[i], "schedule_details.days").v) :
                      i \in { j \in 1..Len(d) :
                                RealPath(d[j], "schedule_details.days").has } }
      s == sorted(days)
  IN  [i \in 1..Len(s) |-> [_id |-> s[i]]]

----------------------------------------------------------------------------
(* Store calls, made on a bound MockCollection *)

\* collection.insert_one(doc)
InsertOne ==
  /\ steps < MaxSteps
  /\ queries = 0
  /\ \E call \in InsertCalls :
       LET coll == call[1]
           doc == call[2]
       IN  /\ Handle(coll).kind = "mock"
           /\ data' = [data EXCEPT ![coll] = insert_one(@, doc)]
           /\ last' = [op |-> "insert_one", coll |-> coll, doc |-> doc,
                       raised |-> "none",
                       real |-> [raised |-> RealInsertOne(data[coll], doc).raised]]
  /\ rt' = [on |-> FALSE]
  /\ steps' = steps + 1
  /\ UNCHANGED <<conn, serverUp, server, salt, inits, queries, thr>>

\* A single $push of v onto list field k (or onto no field yet) of a stored
\* document: what a following $pull of the same v is measured against.
Pushed(coll, query, update) ==
  LET i == IF HasKey(query, "_id") THEN IndexOf(data[coll], ValueOf(query, "_id")) ELSE 0
  IN  IF /\ i # 0
         /\ DOMAIN update = {"$push"}
         /\ Len(update["$push"]) = 1
         /\ update["$push"][1].k \in ListFields
      THEN [on |-> TRUE, coll |-> coll, query |-> query,
            k |-> update["$push"][1].k, v |-> update["$push"][1].v,
            had |-> Has(data[coll][i], update["$push"][1].k),
            before |-> IF Has(data[coll][i], update["$push"][1].k)
                       THEN data[coll][i][update["$push"][1].k] ELSE <<>>]
      ELSE [on |-> FALSE]

\* Is this call the $pull of the value just pushed, on the same document?
PullsBack(coll, query, update) ==
  /\ rt.on
  /\ rt.coll = coll
  /\ rt.query = query
  /\ DOMAIN update = {"$pull"}
  /\ update["$pull"] = <<Item(rt.k, rt.v)>>

\* collection.update_one(query, update)
UpdateOne ==
  /\ steps < MaxSteps
  /\ queries = 0
  /\ \E call \in UpdateCalls :
       LET coll == call[1]
           query == call[2]
           update == call[3]
           r == update_one(data[coll], query, update)
       IN  /\ Handle(coll).kind = "mock"
           /\ data' = [data EXCEPT ![coll] = r.data]
           /\ last' = [op |-> "update_one", coll |-> coll, query |-> query,
                       update |-> update,
                       modified_count |-> r.modified_count,
                       raised |-> r.raised,
                       back |-> IF PullsBack(coll, query, update)
                                THEN rt ELSE [on |-> FALSE],
                       real |-> RealUpdateOne(data[coll], query, update)]
           /\ rt' = Pushed(coll, query, update)
  /\ steps' = steps + 1
  /\ UNCHANGED <<conn, serverUp, server, salt, inits, queries, thr>>

\* find that takes the documents it returns out of self.data.
Find_Popping ==
  /\ queries < MaxQueries
  /\ \E call \in FindCalls :
       LET coll == call[1]
           query == call[2]
       IN  /\ Handle(coll).kind = "mock"
           /\ last' = [op |-> "find", coll |-> coll, query |-> query,
                       ret |-> find(data[coll], query), raised |-> "none",
                       real |-> [ret |-> RealFind(data[coll], query)]]
           /\ data' = [data EXCEPT ![coll] =
                         SelectSeq(@, LAMBDA doc : ~Matches(doc, query))]
  /\ queries' = queries + 1
  /\ UNCHANGED <<conn, serverUp, server, salt, rt, steps, inits, thr>>

\* collection.find(query)
Find ==
  /\ queries < MaxQueries
  /\ \E call \in FindCalls :
       LET coll == call[1]
           query == call[2]
       IN  /\ Handle(coll).kind = "mock"
           /\ last' = [op |-> "find", coll |-> coll, query |-> query,
                       ret |-> find(data[coll], query), raised |-> "none",
                       real |-> [ret |-> RealFind(data[coll], query)]]
  /\ queries' = queries + 1
  /\ UNCHANGED <<conn, data, serverUp, server, salt, rt, steps, inits, thr>>

\* collection.find_one(query)
FindOne ==
  /\ queries < MaxQueries
  /\ \E call \in FindOneCalls :
       LET coll == call[1]
           query == call[2]
       IN  /\ Handle(coll).kind = "mock"
           /\ last' = [op |-> "find_one", coll |-> coll, query |-> query,
                       ret |-> find_one(data[coll], query), raised |-> "none"]
  /\ queries' = queries + 1
  /\ UNCHANGED <<conn, data, serverUp, server, salt, rt, steps, inits, thr>>

\* collection.count_documents(query)
CountDocuments ==
  /\ queries < MaxQueries
  /\ \E call \in CountCalls :
       LET coll == call[1]
           query == call[2]
       IN  /\ Handle(coll).kind = "mock"
           /\ last' = [op |-> "count_documents", coll |-> coll, query |-> query,
                       ret |-> count_documents(data[coll], query), raised |-> "none"]
  /\ queries' = queries + 1
  /\ UNCHANGED <<conn, data, serverUp, server, salt, rt, steps, inits, thr>>

\* collection.aggregate(pipeline)
Aggregate ==
  /\ queries < MaxQueries
  /\ \E call \in AggregateCalls :
       LET coll == call[1]
           pipeline == call[2]
       IN  /\ Handle(coll).kind = "mock"
           /\ last' = [op |-> "aggregate", coll |-> coll, pipeline |-> pipeline,
                       ret |-> aggregate(data[coll], pipeline), raised |-> "none",
                       real |-> [ret |-> IF pipeline = DaysPipeline
                                         THEN RealDistinctDays(data[coll])
                                         ELSE <<>>]]
  /\ UNCHANGED <<conn, data, serverUp, server, salt, rt, steps, inits, thr>>
  /\ queries' = queries + 1

----------------------------------------------------------------------------
(* Specifications *)

\* The application's use: init_database at start-up, then store calls.
Next ==
  \/ InitDatabase
  \/ InsertOne
  \/ UpdateOne
  \/ Find
  \/ Aggregate

Spec == Init /\ [][Next]_vars

\* The same with _init_db() also called directly.
NextConn ==
  \/ Next
  \/ InitDb

SpecConn == Init /\ [][NextConn]_vars

\* The application's use with the point lookups and counts as well: every
\* method of the store.
NextStore ==
  \/ Next
  \/ FindOne
  \/ CountDocuments

SpecStore == Init /\ [][NextStore]_vars

----------------------------------------------------------------------------
(* Concurrent calls: two threads, each running one call of _init_db() or    *)
(* init_database(); a step is one source line, and a call on a collection   *)
(* (count_documents, insert_one) is one step.                               *)

Threads == {1, 2}

At(line) == [line |-> line, i |-> 0, n |-> 0]

InitConc ==
  /\ InitCommon
  /\ prog \in [Threads -> {"init_database", "_init_db"}]
  /\ pc = [t \in Threads |-> IF prog[t] = "init_database" THEN At("L137") ELSE At("L23")]
  /\ ret = [t \in Threads |-> <<>>]
  /\ raised = [t \in Threads |-> "none"]
  /\ running = 0
  /\ preempts = 0

Goto(t, line) == pc' = [pc EXCEPT ![t] = At(line)]

Raise(t, exc) ==
  /\ raised' = [raised EXCEPT ![t] = exc]
  /\ Goto(t, "raised")

seq == <<last, rt, steps, inits, queries>>

\* What a call on the collection bound to handle h raises before it runs:
\* None has no methods; a real collection needs the server.
CallRaises(h) ==
  IF h.kind = "None" THEN "AttributeError"
  ELSE IF h.kind = "real" /\ ~serverUp THEN "ServerSelectionTimeoutError"
  ELSE "none"

\* count_documents({}) == 0 on the collection bound to handle h.
IsEmpty(h, coll) ==
  IF h.kind = "mock" THEN count_documents(data[coll], <<>>) = 0
  ELSE RealCountAll(server[coll]) = 0

\* The interpreter gives the next step to thread t.
Sched(t) ==
  /\ running' = t
  /\ IF running \in {0, t} \/ pc[running].line \in {"done", "raised"}
     THEN UNCHANGED preempts
     ELSE preempts < MaxPreempts /\ preempts' = preempts + 1

\* line 137: if activities_collection is None or teachers_collection is None
L137(t) ==
  /\ pc[t].line = "L137"
  /\ Sched(t)
  /\ IF activities_collection = NoneH \/ teachers_collection = NoneH
     THEN Goto(t, "L23") ELSE Goto(t, "L141")
  /\ UNCHANGED <<conn, data, serverUp, server, salt, seq, prog, ret, raised>>

\* line 23: if _client is None
L23(t) ==
  /\ pc[t].line = "L23"
  /\ Sched(t)
  /\ IF _client = "None" THEN Goto(t, "L25") ELSE Goto(t, "L37")
  /\ UNCHANGED <<conn, data, serverUp, server, salt, seq, prog, ret, raised>>

\* line 25: _client = MongoClient(...), or the constructor raises
L25(t) ==
  /\ pc[t].line = "L25"
  /\ Sched(t)
  /\ \/ /\ _client' = "MongoClient"
        /\ Goto(t, "L26")
     \/ /\ UNCHANGED _client
        /\ Goto(t, "L129")
  /\ UNCHANGED <<_db, activities_collection, teachers_collection, gen, data,
                 serverUp, server, salt, seq, prog, ret, raised>>

\* line 26: _db = _client['mergington_high']
L26(t) ==
  /\ pc[t].line = "L26"
  /\ Sched(t)
  /\ _db' = "Database"
  /\ Goto(t, "L27")
  /\ UNCHANGED <<_client, activities_collection, teachers_collection, gen, data,
                 serverUp, server, salt, seq, prog, ret, raised>>

\* line 27: activities_collection = _db['activities']
L27(t) ==
  /\ pc[t].line = "L27"
  /\ Sched(t)
  /\ activities_collection' = RealH
  /\ Goto(t, "L28")
  /\ UNCHANGED <<_client, _db, teachers_collection, gen, data,
                 serverUp, server, salt, seq, prog, ret, raised>>

\* line 28: teachers_collection = _db['teachers']
L28(t) ==
  /\ pc[t].line = "L28"
  /\ Sched(t)
  /\ teachers_collection' = RealH
  /\ Goto(t, "L30")
  /\ UNCHANGED <<_client, _db, activities_collection, gen, data,
                 serverUp, server, salt, seq, prog, ret, raised>>

\* line 30: _client.admin.command('ping'); on an exception, lines 31-35
L30(t) ==
  /\ pc[t].line = "L30"
  /\ Sched(t)
  /\ IF serverUp THEN Goto(t, "L37") ELSE Goto(t, "L129")
  /\ UNCHANGED <<conn, data, serverUp, server, salt, seq, prog, ret, raised>>

\* line 129: activities_collection = MockCollection()
L129(t) ==
  /\ pc[t].line = "L129"
  /\ Sched(t)
  /\ activities_collection' = MockH(gen + 1)
  /\ gen' = gen + 1
  /\ data' = [data EXCEPT !.activities = <<>>]
  /\ Goto(t, "L130")
  /\ UNCHANGED <<_client, _db, teachers_collection,
                 serverUp, server, salt, seq, prog, ret, raised>>

\* line 130: teachers_collection = MockCollection()
L130(t) ==
  /\ pc[t].line = "L130"
  /\ Sched(t)
  /\ teachers_collection' = MockH(gen + 1)
  /\ gen' = gen + 1
  /\ data' = [data EXCEPT !.teachers = <<>>]
  /\ Goto(t, "L37")
  /\ UNCHANGED <<_client, _db, activities_collection,
                 serverUp, server, salt, seq, prog, ret, raised>>

\* line 37: return activities_collection, teachers_collection
L37(t) ==
  /\ pc[t].line = "L37"
  /\ Sched(t)
  /\ ret' = [ret EXCEPT ![t] = <<activities_collection, teachers_collection>>]
  /\ IF prog[t] = "_init_db" THEN Goto(t, "done") ELSE Goto(t, "L141")
  /\ UNCHANGED <<conn, data, serverUp, server, salt, seq, prog, raised>>

\* line 141: if activities_collection.count_documents({}) == 0
L141(t) ==
  /\ pc[t].line = "L141"
  /\ Sched(t)
  /\ IF CallRaises(activities_collection) # "none"
     THEN Raise(t, CallRaises(activities_collection))
     ELSE /\ IF IsEmpty(activities_collection, "activities")
             THEN pc' = [pc EXCEPT ![t] = [line |-> "L143", i |-> 1, n |-> 0]]
             ELSE Goto(t, "L146")
          /\ UNCHANGED raised
  /\ UNCHANGED <<conn, data, serverUp, server, salt, seq, prog, ret>>

\* After the i-th of `count` inserts of a loop: the next one, or line `after`.
Advance(t, count, after) ==
  IF pc[t].i < count
  THEN pc' = [pc EXCEPT ![t].i = @ + 1]
  ELSE Goto(t, after)

\* insert_one(doc) on the collection bound to handle h, by thread t inside a
\* loop of `count` inserts that is followed by line `after`.
InsertBy(t, h, coll, doc, count, after) ==
  IF CallRaises(h) # "none"
  THEN Raise(t, CallRaises(h)) /\ UNCHANGED <<data, server>>
  ELSE IF h.kind = "mock"
  THEN /\ data' = [data EXCEPT ![coll] = insert_one(@, doc)]
       /\ Advance(t, count, after)
       /\ UNCHANGED <<server, raised>>
  ELSE IF RealInsertOne(server[coll], doc).raised # "none"
  THEN Raise(t, RealInsertOne(server[coll], doc).raised) /\ UNCHANGED <<data, server>>
  ELSE /\ server' = [server EXCEPT ![coll] = RealInsertOne(@, doc).data]
       /\ Advance(t, count, after)
       /\ UNCHANGED <<data, raised>>

\* line 143: activities_collection.insert_one({"_id": name, **details})
L143(t) ==
  /\ pc[t].line = "L143"
  /\ Sched(t)
  /\ InsertBy(t, activities_collection, "activities", SeedActivityDocs[pc[t].i],
              Len(SeedActivityDocs), "L146")
  /\ UNCHANGED <<conn, serverUp, salt, seq, prog, ret>>

\* line 146: if teachers_collection.count_documents({}) == 0
L146(t) ==
  /\ pc[t].line = "L146"
  /\ Sched(t)
  /\ IF CallRaises(teachers_collection) # "none"
     THEN Raise(t, CallRaises(teachers_collection))
     ELSE /\ IF IsEmpty(teachers_collection, "teachers")
             THEN Goto(t, "L147") ELSE Goto(t, "done")
          /\ UNCHANGED raised
  /\ UNCHANGED <<conn, data, serverUp, server, salt, seq, prog, ret>>

\* line 147: _get_initial_teachers(), three passwords hashed
L147(t) ==
  /\ pc[t].line = "L147"
  /\ Sched(t)
  /\ pc' = [pc EXCEPT ![t] = [line |-> "L148", i |-> 1, n |-> salt]]
  /\ salt' = salt + 3
  /\ UNCHANGED <<conn, data, serverUp, server, seq, prog, ret, raised>>

\* line 148: teachers_collection.insert_one({"_id": teacher["username"], **teacher})
L148(t) ==
  /\ pc[t].line = "L148"
  /\ Sched(t)
  /\ InsertBy(t, teachers_collection, "teachers", SeedTeacherDocs(pc[t].n)[pc[t].i],
              3, "done")
  /\ UNCHANGED <<conn, serverUp, salt, seq, prog, ret>>

NextConc ==
  \E t \in Threads :
    \/ L137(t)
    \/ L23(t)
    \/ L25(t)
    \/ L26(t)
    \/ L27(t)
    \/ L28(t)
    \/ L30(t)
    \/ L129(t)
    \/ L130(t)
    \/ L37(t)
    \/ L141(t)
    \/ L143(t)
    \/ L146(t)
    \/ L147(t)
    \/ L148(t)

SpecConc == InitConc /\ [][NextConc]_vars

----------------------------------------------------------------------------
(* Properties *)

\* The step just taken is a call of `op` (every writing call counts a step).
Wrote(op) == steps' = steps + 1 /\ last'.op = op

Emulated ==
  /\ activities_collection.kind = "mock"
  /\ teachers_collection.kind = "mock"

\* C1: on the emulation backend, a call of init_database() made after an
\* earlier call has returned leaves both collections (identifiers, count,
\* contents, order) and both handles as they were, whatever insert_one and
\* update_one calls came in between.
C1_SeedingIdempotent ==
  [][ (Wrote("init_database") /\ inits >= 1 /\ Emulated)
        => /\ data' = data
           /\ activities_collection' = activities_collection
           /\ teachers_collection' = teachers_collection ]_vars

\* C1 witness: a second init_database() has returned on the emulation backend
\* with the activities no longer as seeded.
C1_Witness ==
  /\ last.op = "init_database"
  /\ inits >= 2
  /\ Emulated
  /\ Len(data.activities) >= 12
  /\ Len(data.teachers) = 3
  /\ data.activities # SeedActivityDocs

\* The participants of the document the latest update_one named.
NamedList(k) ==
  data[last.coll][IndexOf(data[last.coll], ValueOf(last.query, "_id"))][k]

\* A $pull that undid the $push made just before it, on an activity.
PulledBack ==
  /\ last.op = "update_one"
  /\ last.back.on
  /\ last.coll = "activities"
  /\ last.back.k = "participants"

\* C2 as claimed: for any stored activity and ANY value v, $push of v then
\* $pull of v leaves the participants as they were before the $push.
C2_RoundTripAnyValue ==
  PulledBack => NamedList("participants") = last.back.before

\* C2 amended: for any stored activity and any value v that was not among its
\* participants, $push of v then $pull of v leaves the participants as they
\* were before the $push (an activity stored without the field ends with []).
C2_RoundTripNewValue ==
  (PulledBack /\ last.back.v \notin Range(last.back.before))
    => NamedList("participants") = last.back.before

\* C2 witness: a new address was pushed onto a non-empty roster and pulled.
C2_Witness ==
  /\ PulledBack
  /\ last.back.v \notin Range(last.back.before)
  /\ last.back.before # <<>>
  /\ last.modified_count = 1

\* C3: update_one with a filter naming an _id that no stored document has
\* returns modified_count 0, raises nothing and changes no document of either
\* collection.
C3_MissingUpdate ==
  [][ ( /\ Wrote("update_one")
        /\ HasKey(last'.query, "_id")
        /\ IndexOf(data[last'.coll], ValueOf(last'.query, "_id")) = 0 )
        => /\ last'.modified_count = 0
           /\ last'.raised = "none"
           /\ data' = data ]_vars

\* C3 witness: such a call was made on a seeded collection.
C3_Witness ==
  /\ last.op = "update_one"
  /\ HasKey(last.query, "_id")
  /\ IndexOf(data[last.coll], ValueOf(last.query, "_id")) = 0
  /\ Len(data[last.coll]) >= 3
  /\ last.modified_count = 0

\* The calls the parity claim lists: insert, find by day membership, find by
\* time range, one $push or one $pull on participants, distinct days.
ParityCall ==
  \/ last.op = "insert_one"
  \/ last.op = "find" /\ last.query \in {DaysQuery, TimeQuery}
  \/ last.op = "aggregate" /\ last.pipeline = DaysPipeline
  \/ /\ last.op = "update_one"
     /\ Cardinality(DOMAIN last.update) = 1
     /\ \A op \in DOMAIN last.update :
          /\ Len(last.update[op]) = 1
          /\ last.update[op][1].k = "participants"

\* C4 as claimed: on each of these calls the mock returns what a document
\* database with real semantics holding the same documents returns: the same
\* documents, the same modified_count, the same outcome of an insert.
C4_BackendParity ==
  ParityCall =>
    /\ last.raised = last.real.raised
    /\ last.op \in {"find", "aggregate"} => last.ret = last.real.ret
    /\ last.op = "update_one" => last.modified_count = last.real.modified_count

\* Alphabetical rank of the weekday names.
DayRank(day) ==
  CASE day = "Friday" -> 1
    [] day = "Monday" -> 2
    [] day = "Saturday" -> 3
    [] day = "Sunday" -> 4
    [] day = "Thursday" -> 5
    [] day = "Tuesday" -> 6
    [] day = "Wednesday" -> 7

\* The weekday names in schedule_details.days of at least one document.
DaysStored(d) ==
  { day \in {"Monday", "Tuesday", "Wednesday", "Thursday", "Friday",
             "Saturday", "Sunday"} :
      \E i \in 1..Len(d) :
        /\ Has(d[i], "schedule_details")
        /\ Has(d[i]["schedule_details"], "days")
        /\ \E j \in 1..Len(d[i]["schedule_details"]["days"]) :
             d[i]["schedule_details"]["days"][j] = day }

DaysCall ==
  /\ last.op = "aggregate"
  /\ last.pipeline \in {DaysPipeline, SubSeq(DaysPipeline, 1, 2)}

\* C9: the unwind+group pipeline returns one document per weekday name stored
\* in some schedule_details.days, each once and no other, in ascending
\* alphabetical order; over the seed set: Friday, Monday, Saturday, Sunday,
\* Thursday, Tuesday, Wednesday.
C9_DistinctDays ==
  DaysCall =>
    /\ { last.ret[i]._id : i \in 1..Len(last.ret) } = DaysStored(data[last.coll])
    /\ Len(last.ret) = Cardinality(DaysStored(data[last.coll]))
    /\ \A i, j \in 1..Len(last.ret) :
         i < j => DayRank(last.ret[i]._id) < DayRank(last.ret[j]._id)
    /\ data[last.coll] = SeedActivityDocs =>
         last.ret = << [_id |-> "Friday"], [_id |-> "Monday"], [_id |-> "Saturday"],
                       [_id |-> "Sunday"], [_id |-> "Thursday"], [_id |-> "Tuesday"],
                       [_id |-> "Wednesday"] >>

\* C9 witness: the pipeline ran on activities that no longer hold every
\* weekday and hold one weekday twice in one document.
C9_Witness ==
  /\ DaysCall
  /\ last.coll = "activities"
  /\ Len(last.ret) = 6
  /\ \E i \in 1..Len(data.activities) :
       /\ Has(data.activities[i], "schedule_details")
       /\ Has(data.activities[i]["schedule_details"], "days")
       /\ data.activities[i]["schedule_details"]["days"] = <<"Saturday", "Saturday">>

\* Unwind of the weekday-names field followed by a group on its values.
IsDaysShape(pipeline) ==
  /\ Len(pipeline) >= 2
  /\ "$unwind" \in DOMAIN pipeline[1]
  /\ pipeline[1]["$unwind"] = "$schedule_details.days"
  /\ "$group" \in DOMAIN pipeline[2]
  /\ pipeline[2]["$group"] = [_id |-> "$schedule_details.days"]

\* C10 as claimed: aggregate returns a non-empty sequence only for the
\* distinct-days shape; every other pipeline returns the empty sequence and
\* raises nothing.
C10_OnlyDaysShape ==
  last.op = "aggregate" =>
    /\ last.raised = "none"
    /\ last.ret # <<>> => IsDaysShape(last.pipeline)

\* Calls that go through _init_db(): directly, or from init_database().
Connects(op) == op \in {"_init_db", "init_database"}

\* C5 as claimed: once both handles are bound to the emulation backend, no
\* later call of _init_db() or init_database() makes a connection attempt,
\* rebinds a handle or replaces the MockCollection instances, whichever step
\* of the first attempt failed.
C5_Irreversible ==
  [][ Emulated
        => /\ activities_collection' = activities_collection
           /\ teachers_collection' = teachers_collection
           /\ gen' = gen
           /\ _client' = _client
           /\ (steps' = steps + 1 /\ Connects(last'.op)) => last'.outcome = "none" ]_vars

\* The latest call was _init_db() and its connection attempt failed.
FailedConnect ==
  /\ last.op = "_init_db"
  /\ last.outcome \in {"ctor_raises", "ping_raises"}

\* C8 as claimed: after a failed connection attempt _init_db() has raised
\* nothing, both handles are MockCollection instances, and the real client
\* and database objects are discarded.
C8_FallbackDiscardsReal ==
  FailedConnect =>
    /\ last.raised = "none"
    /\ Emulated
    /\ last.ret = <<activities_collection, teachers_collection>>
    /\ _client = "None"
    /\ _db = "None"

Finished == \A t \in Threads : pc[t].line \in {"done", "raised"}

\* C6 as claimed: with two concurrent callers, every pair of handles that
\* _init_db() returns holds no None, holds two handles of one backend, and is
\* the pair the globals hold at the end.
C6_NoHalfInitialised ==
  \A t \in Threads :
    ret[t] # <<>> =>
      /\ ret[t][1] # NoneH
      /\ ret[t][2] # NoneH
      /\ ret[t][1].kind = ret[t][2].kind
      /\ Finished => ret[t] = <<activities_collection, teachers_collection>>

\* The identifiers stored in a collection, in order.
Ids(d) == [i \in 1..Len(d) |-> d[i]["_id"]]

\* C7 as claimed: two concurrent init_database() calls with the server
\* unreachable raise nothing, and when both have returned the activities are
\* the 12 seed activities and the teachers the 3 seed accounts, each once.
C7_SeedingRace ==
  (~serverUp /\ \A t \in Threads : prog[t] = "init_database") =>
    /\ \A t \in Threads : raised[t] = "none"
    /\ Finished =>
         /\ Emulated
         /\ Ids(data.activities) = Ids(SeedActivityDocs)
         /\ Ids(data.teachers) = Ids(SeedTeacherDocs(0))

----------------------------------------------------------------------------
(* Queries *)

\* The latest call was find with one condition: $in on schedule_details.days.
DaysFilter ==
  /\ last.op = "find"
  /\ Len(last.query) = 1
  /\ last.query[1].k = "schedule_details.days"
  /\ last.query[1].isop
  /\ DOMAIN last.query[1].v = {"$in"}

\* The document has a days list with at least one of the days of S.
SharesDay(doc, S) ==
  /\ "schedule_details" \in DOMAIN doc
  /\ "days" \in DOMAIN doc["schedule_details"]
  /\ \E day \in S, j \in 1..Len(doc["schedule_details"]["days"]) :
       doc["schedule_details"]["days"][j] = day

\* r holds documents of d, each at most once, in the order d holds them.
InStoreOrder(r, d) ==
  /\ \A i \in 1..Len(r) : \E j \in 1..Len(d) : d[j] = r[i]
  /\ \A i, j \in 1..Len(r) :
       i < j => IndexOf(d, r[i]["_id"]) < IndexOf(d, r[j]["_id"])

\* C11: find with a $in condition on schedule_details.days and candidates S
\* returns exactly the stored documents whose days list shares a day with S
\* (a document without a days list never matches), in insertion order; over
\* the seed set with S = {Monday, Friday}: Chess Club, Morning Fitness,
\* Basketball Team, Drama Club, Debate Team.
C11_DaysMembership ==
  DaysFilter =>
    LET S == Range(last.query[1].v["$in"])
        d == data[last.coll]
    IN  /\ \A i \in 1..Len(d) :
             SharesDay(d[i], S) <=> \E j \in 1..Len(last.ret) : last.ret[j] = d[i]
        /\ InStoreOrder(last.ret, d)
        /\ (d = SeedActivityDocs /\ S = {"Monday", "Friday"}) =>
             [i \in 1..Len(last.ret) |-> last.ret[i]["_id"]] =
               <<"Chess Club", "Morning Fitness", "Basketball Team",
                 "Drama Club", "Debate Team">>

\* C11 witness: the Monday/Friday query ran on activities of which one has no
\* schedule_details any more, and returned the other four.
C11_Witness ==
  /\ DaysFilter
  /\ last.coll = "activities"
  /\ Range(last.query[1].v["$in"]) = {"Monday", "Friday"}
  /\ \E i \in 1..Len(data.activities) : "schedule_details" \notin DOMAIN data.activities[i]
  /\ Len(last.ret) = 4

\* The latest call was find with a lower bound on start_time and an upper
\* bound on end_time.
TimeFilter ==
  /\ last.op = "find"
  /\ Len(last.query) = 2
  /\ last.query[1].k = "schedule_details.start_time"
  /\ last.query[1].isop
  /\ DOMAIN last.query[1].v = {"$gte"}
  /\ last.query[2].k = "schedule_details.end_time"
  /\ last.query[2].isop
  /\ DOMAIN last.query[2].v = {"$lte"}

\* s <= t in lexicographic order, on sequences of code points.
RECURSIVE LexLE(_, _)
LexLE(s, t) ==
  IF s = <<>> THEN TRUE
  ELSE IF t = <<>> THEN FALSE
  ELSE IF Head(s) # Head(t) THEN Head(s) < Head(t)
  ELSE LexLE(Tail(s), Tail(t))

\* A zero-padded 24h "HH:MM" string, and its minutes since midnight.
ZeroPadded(s) ==
  LET c == Codes(s)
  IN  /\ Len(c) = 5
      /\ c[3] = 58
      /\ \A i \in {1, 2, 4, 5} : c[i] \in 48..57
      /\ (c[1] - 48) * 10 + (c[2] - 48) < 24
      /\ c[4] - 48 < 6

Minutes(s) ==
  LET c == Codes(s)
  IN  ((c[1] - 48) * 10 + (c[2] - 48)) * 60 + (c[4] - 48) * 10 + (c[5] - 48)

HasTimes(doc) ==
  /\ "schedule_details" \in DOMAIN doc
  /\ "start_time" \in DOMAIN doc["schedule_details"]
  /\ "end_time" \in DOMAIN doc["schedule_details"]

\* C12: find with start_time >= lo and end_time <= hi returns exactly the
\* stored documents whose start_time is lexicographically >= lo and whose
\* end_time is lexicographically <= hi (both); on zero-padded HH:MM values
\* that is the comparison by the clock; over the seed set with lo = "09:00",
\* hi = "18:00" the result is every activity but Programming Class, Morning
\* Fitness and Math Club.
C12_TimeRange ==
  TimeFilter =>
    LET lo == last.query[1].v["$gte"]
        hi == last.query[2].v["$lte"]
        d == data[last.coll]
        returned(doc) == \E j \in 1..Len(last.ret) : last.ret[j] = doc
    IN  /\ \A i \in 1..Len(d) :
             returned(d[i]) <=>
               /\ HasTimes(d[i])
               /\ LexLE(Codes(lo), Codes(d[i]["schedule_details"]["start_time"]))
               /\ LexLE(Codes(d[i]["schedule_details"]["end_time"]), Codes(hi))
        /\ InStoreOrder(last.ret, d)
        /\ \A i \in 1..Len(d) :
             ( /\ HasTimes(d[i])
               /\ ZeroPadded(lo) /\ ZeroPadded(hi)
               /\ ZeroPadded(d[i]["schedule_details"]["start_time"])
               /\ ZeroPadded(d[i]["schedule_details"]["end_time"]) )
             => ( returned(d[i]) <=>
                    /\ Minutes(d[i]["schedule_details"]["start_time"]) >= Minutes(lo)
                    /\ Minutes(d[i]["schedule_details"]["end_time"]) <= Minutes(hi) )
        /\ (d = SeedActivityDocs /\ lo = "09:00" /\ hi = "18:00") =>
             [i \in 1..Len(last.ret) |-> last.ret[i]["_id"]] =
               <<"Chess Club", "Soccer Team", "Basketball Team", "Art Club",
                 "Drama Club", "Debate Team", "Weekend Robotics Workshop",
                 "Science Olympiad", "Sunday Chess Tournament">>

\* C12 witness: a range query returned a document whose start_time equals the
\* lower bound, on activities of which one carries a start_time and no
\* end_time.
C12_Witness ==
  /\ TimeFilter
  /\ last.coll = "activities"
  /\ \E j \in 1..Len(last.ret) :
       last.ret[j]["schedule_details"]["start_time"] = last.query[1].v["$gte"]
  /\ \E i \in 1..Len(data.activities) :
       /\ "schedule_details" \in DOMAIN data.activities[i]
       /\ "start_time" \in DOMAIN data.activities[i]["schedule_details"]
       /\ "end_time" \notin DOMAIN data.activities[i]["schedule_details"]

\* The document has every field/value pair of a plain-equality filter.
AllPairs(doc, f) ==
  \A i \in 1..Len(f) : f[i].k \in DOMAIN doc /\ doc[f[i].k] = f[i].v

\* Positions of the documents of d that have every pair of f.
Hits(d, f) == { i \in 1..Len(d) : AllPairs(d[i], f) }

----------------------------------------------------------------------------
(* Writes *)

\* C14: insert_one of a document whose _id is stored replaces that document
\* without raising, with the count and every other document unchanged;
\* insert_one of a new _id adds one to the count and puts the document at the
\* end of the traversal order.
C14_InsertUpsert ==
  [][ Wrote("insert_one") =>
        LET coll == last'.coll
            doc == last'.doc
            d == data[coll]
            e == data'[coll]
        IN  /\ last'.raised = "none"
            /\ \A c \in Colls \ {coll} : data'[c] = data[c]
            /\ IF \E i \in 1..Len(d) : d[i]["_id"] = doc["_id"]
               THEN /\ Len(e) = Len(d)
                    /\ \A i \in 1..Len(d) :
                         e[i] = IF d[i]["_id"] = doc["_id"] THEN doc ELSE d[i]
               ELSE /\ Len(e) = Len(d) + 1
                    /\ e[Len(e)] = doc
                    /\ \A i \in 1..Len(d) : e[i] = d[i] ]_vars

\* C14 witness: a new _id was inserted after the twelve seeds, and then the
\* first seed was inserted again with other fields.
C14_Witness ==
  /\ last.op = "insert_one"
  /\ last.coll = "activities"
  /\ last.doc["_id"] = "Chess Club"
  /\ Len(data.activities) = 13
  /\ data.activities[1] = last.doc
  /\ data.activities[13]["_id"] = "Yoga Class"

\* The calls of the store interface.
StoreOps ==
  {"find_one", "find", "count_documents", "insert_one", "update_one", "aggregate"}

\* C15 as claimed: every call of find_one, find, count_documents, insert_one,
\* update_one or aggregate on a MockCollection returns a value and raises
\* nothing, a $push on a stored field that is no list included.
C15_NoException ==
  last.op \in StoreOps => last.raised = "none"

\* The identifiers a collection handle gives access to: those of the
\* MockCollection, or of the server's collection behind a real handle.
StoredIds(c) ==
  LET h == IF c = "activities" THEN activities_collection ELSE teachers_collection
      d == IF h.kind = "mock" THEN data[c]
           ELSE IF h.kind = "real" THEN server[c] ELSE <<>>
  IN  { d[i]["_id"] : i \in 1..Len(d) }

\* C16 as claimed: across init_database, _init_db, insert_one and update_one
\* calls, the identifiers held by each collection only grow: none is lost.
C16_NeverDeleted ==
  [][ \A c \in Colls : StoredIds(c) \subseteq StoredIds(c)' ]_vars

\* s without any occurrence of v, the others in their order.
RECURSIVE RemoveAll(_, _)
RemoveAll(s, v) ==
  IF s = <<>> THEN <<>>
  ELSE IF Head(s) = v THEN RemoveAll(Tail(s), v)
  ELSE <<Head(s)>> \o RemoveAll(Tail(s), v)

\* The step is an update_one that found the document its filter names.
UpdatedAt(i) ==
  /\ Wrote("update_one")
  /\ HasKey(last'.query, "_id")
  /\ i = IndexOf(data[last'.coll], ValueOf(last'.query, "_id"))
  /\ i # 0

\* C17: on the identified document, $push of v appends v at the end of the
\* named list field, creating the field empty first when it is missing; $pull
\* of v removes every occurrence of v from the named list field, the rest in
\* their order, and changes nothing when the field is missing or no list; an
\* update carrying both applies the $push alone.
C17_OneOperation ==
  [][ Wrote("update_one") => \A i \in 1..Len(data[last'.coll]) :
        UpdatedAt(i) =>
          LET old == data[last'.coll][i]
              new == data'[last'.coll][i]
              u == last'.update
          IN  /\ ( /\ "$push" \in DOMAIN u
                   /\ Len(u["$push"]) = 1
                   /\ u["$push"][1].k \in ListFields )
                 => LET k == u["$push"][1].k
                    IN  /\ last'.modified_count = 1
                        /\ DOMAIN new = DOMAIN old \cup {k}
                        /\ new[k] = (IF k \in DOMAIN old THEN old[k] ELSE <<>>)
                                       \o <<u["$push"][1].v>>
                        /\ \A f \in DOMAIN old \ {k} : new[f] = old[f]
              /\ ( /\ DOMAIN u = {"$pull"}
                   /\ Len(u["$pull"]) = 1 )
                 => LET k == u["$pull"][1].k
                    IN  /\ last'.modified_count = 1
                        /\ DOMAIN new = DOMAIN old
                        /\ \A f \in DOMAIN old :
                             new[f] = IF f = k /\ k \in ListFields
                                      THEN RemoveAll(old[f], u["$pull"][1].v)
                                      ELSE old[f] ]_vars

\* C17 witness: an update carrying a $push and a $pull has run on a stored
\* activity, whose roster is one longer and still holds the value to pull.
C17_Witness ==
  /\ last.op = "update_one"
  /\ DOMAIN last.update = {"$push", "$pull"}
  /\ last.modified_count = 1
  /\ last.update["$pull"][1].v \in Range(NamedList("participants"))
  /\ Len(NamedList("participants")) = 3

----------------------------------------------------------------------------
(* Reads *)

\* C18 as claimed: for every plain-equality filter f, a filter that combines
\* _id with other fields included, find_one(f) is absent exactly when
\* count_documents(f) is 0, and is otherwise the first element of find(f).
C18_FindOneAgreesWithFind ==
  last.op = "find_one" =>
    LET d == data[last.coll]
        f == last.query
    IN  IF count_documents(d, f) = 0
        THEN ~last.ret.found
        ELSE last.ret.found /\ last.ret.doc = Head(find(d, f))

\* C19: an update_one that returns modified_count 1 changes nothing but the
\* named list field(s) of the document its filter identifies: the other
\* fields of that document, the other documents, their order and the other
\* collection are as before.
C19_UpdateFootprint ==
  [][ (Wrote("update_one") /\ last'.modified_count = 1) =>
        LET coll == last'.coll
            d == data[coll]
            e == data'[coll]
            i == IndexOf(d, ValueOf(last'.query, "_id"))
            named == { k \in {"participants", "_id"} :
                         \E op \in DOMAIN last'.update :
                           \E n \in 1..Len(last'.update[op]) :
                             last'.update[op][n].k = k }
        IN  /\ \A c \in Colls \ {coll} : data'[c] = data[c]
            /\ i # 0
            /\ Len(e) = Len(d)
            /\ \A j \in 1..Len(d) : j # i => e[j] = d[j]
            /\ DOMAIN d[i] \subseteq DOMAIN e[i]
            /\ DOMAIN e[i] \subseteq DOMAIN d[i] \cup named
            /\ \A f \in DOMAIN d[i] :
                 (f \notin named \/ f \notin ListFields) => e[i][f] = d[i][f] ]_vars

\* C19 witness: a $push has lengthened the roster of a stored activity while
\* the accounts are stored next to it.
C19_Witness ==
  /\ last.op = "update_one"
  /\ last.coll = "activities"
  /\ last.modified_count = 1
  /\ DOMAIN last.update = {"$push"}
  /\ Len(NamedList("participants")) = 3
  /\ Len(data.activities) >= 12
  /\ Len(data.teachers) = 3

\* The step is a call of find_one, find, count_documents or aggregate.
Read ==
  /\ queries' = queries + 1
  /\ last'.op \in {"find_one", "find", "count_documents", "aggregate"}

\* C20: find_one, find, count_documents and aggregate, with any filter or
\* pipeline, leave every collection with the documents it had, in the order
\* it had them, and leave the handles bound as they were.
C20_ReadsPure ==
  [][ Read => /\ data' = data
              /\ server' = server
              /\ activities_collection' = activities_collection
              /\ teachers_collection' = teachers_collection ]_vars

\* C20 witness: a find that returned documents has run on activities that
\* hold a thirteenth document.
C20_Witness ==
  /\ last.op = "find"
  /\ last.coll = "activities"
  /\ last.ret # <<>>
  /\ queries = 1
  /\ Len(data.activities) = 13

====
